---- MODULE Spec2Model ----
(***************************************************************************)
(* Hashed timelock contract (contracts/cosmos/src/htlc.rs): one swap       *)
(* record per contract instance, locked behind a SHA-256 hash lock and a   *)
(* deadline.  The contract's entry points are modelled as operators that   *)
(* map (storage, block time, caller, message) to a result carrying the     *)
(* storage as the handler left it and the messages of its Response; the    *)
(* host (ledger and token contract) runs each call as one transaction.     *)
(***************************************************************************)
EXTENDS Integers, Sequences, FiniteSets, TLC

VARIABLES storage, now, bank, tokens, sent, exits, funded, last

vars == <<storage, now, bank, tokens, sent, exits, funded, last>>

-----------------------------------------------------------------------------
(* Bounds of the model.                                                    *)

MaxTime == 2
MaxAmount == 2
InitialBalance == 2

-----------------------------------------------------------------------------
(* SHA-256 (sha2::Sha256::digest), on byte sequences.  A 32-bit word is a  *)
(* pair <<high 16 bits, low 16 bits>>.                                     *)

RECURSIVE Xor16(_, _)
Xor16(a, b) ==
    IF a = 0 THEN b ELSE IF b = 0 THEN a
    ELSE ((a + b) % 2) + 2 * Xor16(a \div 2, b \div 2)
RECURSIVE And16(_, _)
And16(a, b) ==
    IF a = 0 \/ b = 0 THEN 0
    ELSE ((a % 2) * (b % 2)) + 2 * And16(a \div 2, b \div 2)
Word(hi, lo) == <<hi % 65536, lo % 65536>>
Xor(a, b) == <<Xor16(a[1], b[1]), Xor16(a[2], b[2])>>
And(a, b) == <<And16(a[1], b[1]), And16(a[2], b[2])>>
Not(a) == <<65535 - a[1], 65535 - a[2]>>
Rotr(a, n) ==
    LET w == IF n >= 16 THEN <<a[2], a[1]>> ELSE a
        k == n % 16
        p == 2 ^ k
        q == 2 ^ (16 - k)
    IN  <<(w[1] \div p) + (w[2] % p) * q, (w[2] \div p) + (w[1] % p) * q>>
Shr(a, n) ==
    LET p == 2 ^ n
        q == 2 ^ (16 - n)
    IN  <<a[1] \div p, (a[2] \div p) + (a[1] % p) * q>>
Add(a, b) ==
    LET lo == a[2] + b[2]
        hi == a[1] + b[1] + (lo \div 65536)
    IN  Word(hi, lo)

K256 == <<<<17034, 12184>>, <<28983, 17553>>, <<46528, 64463>>, <<59829, 56229>>, <<14678, 49755>>, <<23025, 4593>>, <<37439, 33444>>, <<43804, 24277>>, <<55303, 43672>>, <<4739, 23297>>, <<9265, 34238>>, <<21772, 32195>>, <<29374, 23924>>, <<32990, 45566>>, <<39900, 1703>>, <<49563, 61812>>, <<58523, 27073>>, <<61374, 18310>>, <<4033, 40390>>, <<9228, 41420>>, <<11753, 11375>>, <<19060, 33962>>, <<23728, 43484>>, <<30457, 35034>>, <<38974, 20818>>, <<43057, 50797>>, <<45059, 10184>>, <<48985, 32711>>, <<50912, 3059>>, <<54695, 37191>>, <<1738, 25425>>, <<5161, 10599>>, <<10167, 2693>>, <<11803, 8504>>, <<19756, 28156>>, <<21304, 3347>>, <<25866, 29524>>, <<30314, 2747>>, <<33218, 51502>>, <<37490, 11397>>, <<41663, 59553>>, <<43034, 26187>>, <<49739, 35696>>, <<51052, 20899>>, <<53650, 59417>>, <<54937, 1572>>, <<62478, 13701>>, <<4202, 41072>>, <<6564, 49430>>, <<7735, 27656>>, <<10056, 30540>>, <<13488, 48309>>, <<14620, 3251>>, <<20184, 43594>>, <<23452, 51791>>, <<26670, 28659>>, <<29839, 33518>>, <<30885, 25455>>, <<33992, 30740>>, <<36039, 520>>, <<37054, 65530>>, <<42064, 27883>>, <<48889, 41975>>, <<50801, 30962>>>>
H256 == <<<<27145, 58983>>, <<47975, 44677>>, <<15470, 62322>>, <<42319, 62778>>, <<20750, 21119>>, <<39685, 26764>>, <<8067, 55723>>, <<23520, 52505>>>>

\* padding: message bytes, 0x80, zeros, 64-bit big-endian bit length
RECURSIVE Zeros(_)
Zeros(n) == IF n = 0 THEN <<>> ELSE <<0>> \o Zeros(n - 1)
Pad(m) ==
    LET l == Len(m)
        z == (55 - l) % 64
        bitlen == 8 * l
    IN  m \o <<128>> \o Zeros(z) \o Zeros(4)
          \o <<(bitlen \div 16777216) % 256, (bitlen \div 65536) % 256,
               (bitlen \div 256) % 256, bitlen % 256>>

BlockWord(p, b, t) ==
    LET o == 64 * b + 4 * t
    IN  Word(256 * p[o + 1] + p[o + 2], 256 * p[o + 3] + p[o + 4])

SSig0(w) == Xor(Xor(Rotr(w, 7), Rotr(w, 18)), Shr(w, 3))
SSig1(w) == Xor(Xor(Rotr(w, 17), Rotr(w, 19)), Shr(w, 10))
BSig0(w) == Xor(Xor(Rotr(w, 2), Rotr(w, 13)), Rotr(w, 22))
BSig1(w) == Xor(Xor(Rotr(w, 6), Rotr(w, 11)), Rotr(w, 25))
Ch(e, f, g) == Xor(And(e, f), And(Not(e), g))
Maj(a, b, c) == Xor(Xor(And(a, b), And(a, c)), And(b, c))

\* The message schedule, extended from the 16 words of the block up to n words.
RECURSIVE Schedule(_, _)
Schedule(w, n) ==
    IF Len(w) >= n THEN w
    ELSE LET t == Len(w) + 1
         IN  Schedule(Append(w, Add(Add(SSig1(w[t - 2]), w[t - 7]),
                                    Add(SSig0(w[t - 15]), w[t - 16]))), n)

\* Rounds st.t .. n of the compression function on the working variables
\* st.v = <<a, b, c, d, e, f, g, h>>.
RECURSIVE Rounds(_, _, _)
Rounds(st, w, n) ==
    IF st.t > n THEN st
    ELSE LET s == st.v
             t1 == Add(Add(Add(s[8], BSig1(s[5])),
                           Add(Ch(s[5], s[6], s[7]),
                               Word(K256[st.t][1], K256[st.t][2]))), w[st.t])
             t2 == Add(BSig0(s[1]), Maj(s[1], s[2], s[3]))
         IN  Rounds([t |-> st.t + 1,
                     v |-> <<Add(t1, t2), s[1], s[2], s[3], Add(s[4], t1),
                             s[5], s[6], s[7]>>], w, n)

\* One block: schedule and rounds are run in four stretches of 16, which
\* bounds the depth of the evaluation.
Compress(h, p, b) ==
    LET w == Schedule(Schedule(Schedule(
                 [t \in 1..16 |-> BlockWord(p, b, t - 1)], 32), 48), 64)
        s == Rounds(Rounds(Rounds(Rounds([t |-> 1, v |-> h], w, 16), w, 32),
                           w, 48), w, 64).v
    IN  [i \in 1..8 |-> Add(h[i], s[i])]

RECURSIVE Blocks(_, _, _)
Blocks(h, p, b) ==
    IF 64 * b >= Len(p) THEN h ELSE Blocks(Compress(h, p, b), p, b + 1)

Sha256(m) ==
    LET h == Blocks([i \in 1..8 |-> Word(H256[i][1], H256[i][2])], Pad(m), 0)
    IN  [i \in 1..32 |->
            LET w == h[((i - 1) \div 4) + 1]
                k == (i - 1) % 4
            IN  IF k = 0 THEN w[1] \div 256 ELSE IF k = 1 THEN w[1] % 256
                ELSE IF k = 2 THEN w[2] \div 256 ELSE w[2] % 256]


-----------------------------------------------------------------------------
(* Values.                                                                 *)

None == <<>>
Some(x) == <<x>>

\* Addr: the identities the host's address validation accepts.
Alice == "alice"
Bob == "bob"
Cw20 == "cw20token"
Contract == "htlc"
Invalid == "A"
Users == {Alice, Bob}
Addr == {Alice, Bob, Cw20}
Accounts == Addr \cup {Contract}

\* Binary: byte strings used as preimages and hash locks.
Secret == <<115, 101, 99, 114, 101, 116>>
Preimages == {<<>>, Secret}
Digest == [m \in Preimages |-> Sha256(m)]
HashLocks == {<<>>, Digest[<<>>], Digest[Secret], Secret}

\* Coin and the funds attached to a call.
Denoms == {"stake", "uatom"}
Rank == [d \in Denoms |-> IF d = "stake" THEN 1 ELSE 2]
Coin(denom, amount) == [denom |-> denom, amount |-> amount]
Coins == {Coin(d, a) : d \in Denoms, a \in 1..InitialBalance}
Funds ==
    {<<>>} \cup {<<c>> : c \in Coins}
      \cup {p \in Coins \X Coins : Rank[p[1].denom] < Rank[p[2].denom]}

\* SwapState
Open == "Open"
Claimed == "Claimed"
Refunded == "Refunded"

\* StdResult<Response>: the storage as the handler leaves it on return, and the
\* messages of the Response.
Ok(store, messages) ==
    [ok |-> TRUE, err |-> "", storage |-> store, messages |-> messages]
Err(store, e) ==
    [ok |-> FALSE, err |-> e, storage |-> store, messages |-> <<>>]

\* CosmosMsg
BankSend(to_address, amount) ==
    [kind |-> "Bank", to_address |-> to_address, amount |-> amount]
WasmExecute(contract_addr, msg, funds) ==
    [kind |-> "Wasm", contract_addr |-> contract_addr, msg |-> msg, funds |-> funds]
Cw20Transfer(recipient, amount) ==
    [transfer |-> [recipient |-> recipient, amount |-> amount]]

\* deps.api.addr_validate
addr_validate(human) == human \in Addr

\* Storage: the cw2 contract-info item and the SWAP item, each absent or present.
EmptyStorage == [contract_info |-> None, swap |-> None]
CONTRACT_NAME == "crates.io:htlc"
set_contract_version(store) == [store EXCEPT !.contract_info = Some(CONTRACT_NAME)]
SWAP_save(store, swap) == [store EXCEPT !.swap = Some(swap)]

-----------------------------------------------------------------------------
(* The contract's entry points.                                            *)

\* instantiate that stores the two parties the wrong way round.
instantiate_SwapParties(store, time, msg) ==
    LET s1 == set_contract_version(store) IN
    IF ~addr_validate(msg.sender) THEN Err(s1, "Invalid address")
    ELSE IF ~addr_validate(msg.beneficiary) THEN Err(s1, "Invalid address")
    ELSE IF msg.hash_lock = <<>> THEN Err(s1, "Hash lock cannot be empty")
    ELSE IF msg.timelock <= time THEN Err(s1, "Timelock must be in the future")
    ELSE IF msg.amount = 0 THEN Err(s1, "Amount must be greater than zero")
    ELSE IF msg.token # None /\ ~addr_validate(msg.token[1])
    THEN Err(s1, "Invalid address")
    ELSE Ok(SWAP_save(s1, [sender |-> msg.beneficiary,
                           beneficiary |-> msg.sender,
                           hash_lock |-> msg.hash_lock,
                           timelock |-> msg.timelock,
                           amount |-> msg.amount,
                           token |-> msg.token,
                           state |-> Open]),
            <<>>)

\* instantiate that accepts a deadline equal to the block time.
instantiate_DeadlineNow(store, time, msg) ==
    LET s1 == set_contract_version(store) IN
    IF ~addr_validate(msg.sender) THEN Err(s1, "Invalid address")
    ELSE IF ~addr_validate(msg.beneficiary) THEN Err(s1, "Invalid address")
    ELSE IF msg.hash_lock = <<>> THEN Err(s1, "Hash lock cannot be empty")
    ELSE IF msg.timelock < time THEN Err(s1, "Timelock must be in the future")
    ELSE IF msg.amount = 0 THEN Err(s1, "Amount must be greater than zero")
    ELSE IF msg.token # None /\ ~addr_validate(msg.token[1])
    THEN Err(s1, "Invalid address")
    ELSE Ok(SWAP_save(s1, [sender |-> msg.sender,
                           beneficiary |-> msg.beneficiary,
                           hash_lock |-> msg.hash_lock,
                           timelock |-> msg.timelock,
                           amount |-> msg.amount,
                           token |-> msg.token,
                           state |-> Open]),
            <<>>)

instantiate(store, time, msg) ==
    LET s1 == set_contract_version(store) IN
    IF ~addr_validate(msg.sender) THEN Err(s1, "Invalid address")
    ELSE IF ~addr_validate(msg.beneficiary) THEN Err(s1, "Invalid address")
    ELSE IF msg.hash_lock = <<>> THEN Err(s1, "Hash lock cannot be empty")
    ELSE IF msg.timelock <= time THEN Err(s1, "Timelock must be in the future")
    ELSE IF msg.amount = 0 THEN Err(s1, "Amount must be greater than zero")
    ELSE IF msg.token # None /\ ~addr_validate(msg.token[1])
    THEN Err(s1, "Invalid address")
    ELSE Ok(SWAP_save(s1, [sender |-> msg.sender,
                           beneficiary |-> msg.beneficiary,
                           hash_lock |-> msg.hash_lock,
                           timelock |-> msg.timelock,
                           amount |-> msg.amount,
                           token |-> msg.token,
                           state |-> Open]),
            <<>>)

\* info.funds.iter().find(|coin| coin.denom == "uatom" || coin.denom == "stake")
find_payment(funds) ==
    LET hits == {i \in 1..Len(funds) : funds[i].denom \in {"uatom", "stake"}}
    IN  IF hits = {} THEN None
        ELSE Some(funds[CHOOSE i \in hits : \A j \in hits : i <= j])

\* execute_fund that checks the payment of a token swap as well.
execute_fund_AlwaysPayment(store, info) ==
    IF store.swap = None THEN Err(store, "not found")
    ELSE LET swap == store.swap[1]
             payment == find_payment(info.funds)
         IN  IF swap.state # Open THEN Err(store, "Swap is not open")
             ELSE IF info.sender # swap.sender
             THEN Err(store, "Only sender can fund the swap")
             ELSE IF payment = None
             THEN Err(store, "No payment found")
             ELSE IF payment[1].amount # swap.amount
             THEN Err(store, "Incorrect payment amount")
             ELSE Ok(store, <<>>)

\* execute_fund that records the funding as a state of its own.
execute_fund_Records(store, info) ==
    IF store.swap = None THEN Err(store, "not found")
    ELSE LET swap == store.swap[1]
             payment == find_payment(info.funds)
         IN  IF swap.state # Open THEN Err(store, "Swap is not open")
             ELSE IF info.sender # swap.sender
             THEN Err(store, "Only sender can fund the swap")
             ELSE IF swap.token = None /\ payment = None
             THEN Err(store, "No payment found")
             ELSE IF swap.token = None /\ payment[1].amount # swap.amount
             THEN Err(store, "Incorrect payment amount")
             ELSE Ok(SWAP_save(store, [swap EXCEPT !.state = "Funded"]), <<>>)

\* execute_fund with the sender check made before the state check.
execute_fund_SenderFirst(store, info) ==
    IF store.swap = None THEN Err(store, "not found")
    ELSE LET swap == store.swap[1]
             payment == find_payment(info.funds)
         IN  IF info.sender # swap.sender
             THEN Err(store, "Only sender can fund the swap")
             ELSE IF swap.state # Open THEN Err(store, "Swap is not open")
             ELSE IF swap.token = None /\ payment = None
             THEN Err(store, "No payment found")
             ELSE IF swap.token = None /\ payment[1].amount # swap.amount
             THEN Err(store, "Incorrect payment amount")
             ELSE Ok(store, <<>>)

execute_fund(store, info) ==
    IF store.swap = None THEN Err(store, "not found")
    ELSE LET swap == store.swap[1]
             payment == find_payment(info.funds)
         IN  IF swap.state # Open THEN Err(store, "Swap is not open")
             ELSE IF info.sender # swap.sender
             THEN Err(store, "Only sender can fund the swap")
             ELSE IF swap.token = None /\ payment = None
             THEN Err(store, "No payment found")
             ELSE IF swap.token = None /\ payment[1].amount # swap.amount
             THEN Err(store, "Incorrect payment amount")
             ELSE Ok(store, <<>>)

\* The transfer message built by Claim and Refund: a bank send of "uatom" for
\* a native swap, a Cw20 Transfer executed on the token contract otherwise.
transfer_message(swap, recipient) ==
    IF swap.token = None
    THEN BankSend(recipient, <<Coin("uatom", swap.amount)>>)
    ELSE WasmExecute(swap.token[1], Cw20Transfer(recipient, swap.amount), <<>>)

\* execute_claim without the check that the swap is Open.
execute_claim_NoStateCheck(store, time, info, preimage) ==
    IF store.swap = None THEN Err(store, "not found")
    ELSE LET swap == store.swap[1]
             hash == Digest[preimage]
         IN  IF info.sender # swap.beneficiary
             THEN Err(store, "Only beneficiary can claim")
             ELSE IF time >= swap.timelock THEN Err(store, "Timelock has expired")
             ELSE IF hash # swap.hash_lock THEN Err(store, "Invalid preimage")
             ELSE Ok(SWAP_save(store, [swap EXCEPT !.state = Claimed]),
                     <<transfer_message(swap, swap.beneficiary)>>)

\* execute_claim without the check that the caller is the beneficiary.
execute_claim_AnyCaller(store, time, info, preimage) ==
    IF store.swap = None THEN Err(store, "not found")
    ELSE LET swap == store.swap[1]
             hash == Digest[preimage]
         IN  IF swap.state # Open THEN Err(store, "Swap is not open")
             ELSE IF time >= swap.timelock THEN Err(store, "Timelock has expired")
             ELSE IF hash # swap.hash_lock THEN Err(store, "Invalid preimage")
             ELSE Ok(SWAP_save(store, [swap EXCEPT !.state = Claimed]),
                     <<transfer_message(swap, swap.beneficiary)>>)

\* execute_claim that returns the transfer without saving the Claimed state.
execute_claim_NoSave(store, time, info, preimage) ==
    IF store.swap = None THEN Err(store, "not found")
    ELSE LET swap == store.swap[1]
             hash == Digest[preimage]
         IN  IF swap.state # Open THEN Err(store, "Swap is not open")
             ELSE IF info.sender # swap.beneficiary
             THEN Err(store, "Only beneficiary can claim")
             ELSE IF time >= swap.timelock THEN Err(store, "Timelock has expired")
             ELSE IF hash # swap.hash_lock THEN Err(store, "Invalid preimage")
             ELSE Ok(store, <<transfer_message(swap, swap.beneficiary)>>)

\* execute_claim that saves the Claimed state before it verifies the preimage.
execute_claim_SaveFirst(store, time, info, preimage) ==
    IF store.swap = None THEN Err(store, "not found")
    ELSE LET swap == store.swap[1]
             hash == Digest[preimage]
             saved == SWAP_save(store, [swap EXCEPT !.state = Claimed])
         IN  IF swap.state # Open THEN Err(store, "Swap is not open")
             ELSE IF info.sender # swap.beneficiary
             THEN Err(store, "Only beneficiary can claim")
             ELSE IF time >= swap.timelock THEN Err(store, "Timelock has expired")
             ELSE IF hash # swap.hash_lock THEN Err(saved, "Invalid preimage")
             ELSE Ok(saved, <<transfer_message(swap, swap.beneficiary)>>)

\* execute_claim that compares the preimage itself, unhashed, with hash_lock.
execute_claim_NoDigest(store, time, info, preimage) ==
    IF store.swap = None THEN Err(store, "not found")
    ELSE LET swap == store.swap[1]
             hash == preimage
         IN  IF swap.state # Open THEN Err(store, "Swap is not open")
             ELSE IF info.sender # swap.beneficiary
             THEN Err(store, "Only beneficiary can claim")
             ELSE IF time >= swap.timelock THEN Err(store, "Timelock has expired")
             ELSE IF hash # swap.hash_lock THEN Err(store, "Invalid preimage")
             ELSE Ok(SWAP_save(store, [swap EXCEPT !.state = Claimed]),
                     <<transfer_message(swap, swap.beneficiary)>>)

\* execute_claim that verifies the preimage before it looks at the caller.
execute_claim_HashFirst(store, time, info, preimage) ==
    IF store.swap = None THEN Err(store, "not found")
    ELSE LET swap == store.swap[1]
             hash == Digest[preimage]
         IN  IF swap.state # Open THEN Err(store, "Swap is not open")
             ELSE IF hash # swap.hash_lock THEN Err(store, "Invalid preimage")
             ELSE IF info.sender # swap.beneficiary
             THEN Err(store, "Only beneficiary can claim")
             ELSE IF time >= swap.timelock THEN Err(store, "Timelock has expired")
             ELSE Ok(SWAP_save(store, [swap EXCEPT !.state = Claimed]),
                     <<transfer_message(swap, swap.beneficiary)>>)

\* execute_claim without the check of the deadline.
execute_claim_NoDeadline(store, time, info, preimage) ==
    IF store.swap = None THEN Err(store, "not found")
    ELSE LET swap == store.swap[1]
             hash == Digest[preimage]
         IN  IF swap.state # Open THEN Err(store, "Swap is not open")
             ELSE IF info.sender # swap.beneficiary
             THEN Err(store, "Only beneficiary can claim")
             ELSE IF hash # swap.hash_lock THEN Err(store, "Invalid preimage")
             ELSE Ok(SWAP_save(store, [swap EXCEPT !.state = Claimed]),
                     <<transfer_message(swap, swap.beneficiary)>>)

\* execute_claim whose transfer goes to the sender.
execute_claim_ToSender(store, time, info, preimage) ==
    IF store.swap = None THEN Err(store, "not found")
    ELSE LET swap == store.swap[1]
             hash == Digest[preimage]
         IN  IF swap.state # Open THEN Err(store, "Swap is not open")
             ELSE IF info.sender # swap.beneficiary
             THEN Err(store, "Only beneficiary can claim")
             ELSE IF time >= swap.timelock THEN Err(store, "Timelock has expired")
             ELSE IF hash # swap.hash_lock THEN Err(store, "Invalid preimage")
             ELSE Ok(SWAP_save(store, [swap EXCEPT !.state = Claimed]),
                     <<transfer_message(swap, swap.sender)>>)

\* execute_claim that saves the Claimed state and returns no transfer.
execute_claim_NoTransfer(store, time, info, preimage) ==
    IF store.swap = None THEN Err(store, "not found")
    ELSE LET swap == store.swap[1]
             hash == Digest[preimage]
         IN  IF swap.state # Open THEN Err(store, "Swap is not open")
             ELSE IF info.sender # swap.beneficiary
             THEN Err(store, "Only beneficiary can claim")
             ELSE IF time >= swap.timelock THEN Err(store, "Timelock has expired")
             ELSE IF hash # swap.hash_lock THEN Err(store, "Invalid preimage")
             ELSE Ok(SWAP_save(store, [swap EXCEPT !.state = Claimed]), <<>>)

\* execute_claim that rebuilds the record with the caller as its sender.
execute_claim_Rebuild(store, time, info, preimage) ==
    IF store.swap = None THEN Err(store, "not found")
    ELSE LET swap == store.swap[1]
             hash == Digest[preimage]
         IN  IF swap.state # Open THEN Err(store, "Swap is not open")
             ELSE IF info.sender # swap.beneficiary
             THEN Err(store, "Only beneficiary can claim")
             ELSE IF time >= swap.timelock THEN Err(store, "Timelock has expired")
             ELSE IF hash # swap.hash_lock THEN Err(store, "Invalid preimage")
             ELSE Ok(SWAP_save(store, [swap EXCEPT !.state = Claimed,
                                                   !.sender = info.sender]),
                     <<transfer_message(swap, swap.beneficiary)>>)

execute_claim(store, time, info, preimage) ==
    IF store.swap = None THEN Err(store, "not found")
    ELSE LET swap == store.swap[1]
             hash == Digest[preimage]
         IN  IF swap.state # Open THEN Err(store, "Swap is not open")
             ELSE IF info.sender # swap.beneficiary
             THEN Err(store, "Only beneficiary can claim")
             ELSE IF time >= swap.timelock THEN Err(store, "Timelock has expired")
             ELSE IF hash # swap.hash_lock THEN Err(store, "Invalid preimage")
             ELSE Ok(SWAP_save(store, [swap EXCEPT !.state = Claimed]),
                     <<transfer_message(swap, swap.beneficiary)>>)

\* execute_refund that first requires the contract to hold the amount.
execute_refund_NeedsFunds(store, time, info) ==
    IF store.swap = None THEN Err(store, "not found")
    ELSE LET swap == store.swap[1]
         IN  IF swap.state # Open THEN Err(store, "Swap is not open")
             ELSE IF info.sender # swap.sender
             THEN Err(store, "Only sender can refund")
             ELSE IF time < swap.timelock
             THEN Err(store, "Timelock has not expired")
             ELSE IF (IF swap.token = None THEN bank[Contract]["uatom"]
                      ELSE tokens[Contract]) < swap.amount
             THEN Err(store, "Swap is not funded")
             ELSE Ok(SWAP_save(store, [swap EXCEPT !.state = Refunded]),
                     <<transfer_message(swap, swap.sender)>>)

\* execute_refund that lets the beneficiary, not the sender, refund.
execute_refund_ByBeneficiary(store, time, info) ==
    IF store.swap = None THEN Err(store, "not found")
    ELSE LET swap == store.swap[1]
         IN  IF swap.state # Open THEN Err(store, "Swap is not open")
             ELSE IF info.sender # swap.beneficiary
             THEN Err(store, "Only sender can refund")
             ELSE IF time < swap.timelock
             THEN Err(store, "Timelock has not expired")
             ELSE Ok(SWAP_save(store, [swap EXCEPT !.state = Refunded]),
                     <<transfer_message(swap, swap.sender)>>)

\* execute_refund that refuses the refund at the deadline itself.
execute_refund_StrictlyAfter(store, time, info) ==
    IF store.swap = None THEN Err(store, "not found")
    ELSE LET swap == store.swap[1]
         IN  IF swap.state # Open THEN Err(store, "Swap is not open")
             ELSE IF info.sender # swap.sender
             THEN Err(store, "Only sender can refund")
             ELSE IF time <= swap.timelock
             THEN Err(store, "Timelock has not expired")
             ELSE Ok(SWAP_save(store, [swap EXCEPT !.state = Refunded]),
                     <<transfer_message(swap, swap.sender)>>)

\* execute_refund without the check that the swap is Open.
execute_refund_NoStateCheck(store, time, info) ==
    IF store.swap = None THEN Err(store, "not found")
    ELSE LET swap == store.swap[1]
         IN  IF info.sender # swap.sender
             THEN Err(store, "Only sender can refund")
             ELSE IF time < swap.timelock
             THEN Err(store, "Timelock has not expired")
             ELSE Ok(SWAP_save(store, [swap EXCEPT !.state = Refunded]),
                     <<transfer_message(swap, swap.sender)>>)

\* execute_refund whose transfer goes to the beneficiary.
execute_refund_ToBeneficiary(store, time, info) ==
    IF store.swap = None THEN Err(store, "not found")
    ELSE LET swap == store.swap[1]
         IN  IF swap.state # Open THEN Err(store, "Swap is not open")
             ELSE IF info.sender # swap.sender
             THEN Err(store, "Only sender can refund")
             ELSE IF time < swap.timelock
             THEN Err(store, "Timelock has not expired")
             ELSE Ok(SWAP_save(store, [swap EXCEPT !.state = Refunded]),
                     <<transfer_message(swap, swap.beneficiary)>>)

execute_refund(store, time, info) ==
    IF store.swap = None THEN Err(store, "not found")
    ELSE LET swap == store.swap[1]
         IN  IF swap.state # Open THEN Err(store, "Swap is not open")
             ELSE IF info.sender # swap.sender
             THEN Err(store, "Only sender can refund")
             ELSE IF time < swap.timelock
             THEN Err(store, "Timelock has not expired")
             ELSE Ok(SWAP_save(store, [swap EXCEPT !.state = Refunded]),
                     <<transfer_message(swap, swap.sender)>>)

\* execute_receive without the check of the notifying contract.
execute_receive_AnyNotifier(store, info, wrapper) ==
    IF wrapper.msg # "fund" THEN Err(store, "Error parsing into type Cw20HookMsg")
    ELSE IF ~addr_validate(wrapper.sender) THEN Err(store, "Invalid address")
    ELSE IF store.swap = None THEN Err(store, "not found")
    ELSE LET swap == store.swap[1]
             balance == wrapper.amount
         IN  IF balance # swap.amount THEN Err(store, "Incorrect token amount")
             ELSE Ok(store, <<>>)

\* wrapper.msg is "fund" when it parses as Cw20HookMsg::Fund, anything else
\* when from_slice fails.
execute_receive(store, info, wrapper) ==
    IF wrapper.msg # "fund" THEN Err(store, "Error parsing into type Cw20HookMsg")
    ELSE IF ~addr_validate(wrapper.sender) THEN Err(store, "Invalid address")
    ELSE IF store.swap = None THEN Err(store, "not found")
    ELSE LET swap == store.swap[1]
             balance == wrapper.amount
         IN  IF swap.token # Some(info.sender)
             THEN Err(store, "Wrong token contract")
             ELSE IF balance # swap.amount THEN Err(store, "Incorrect token amount")
             ELSE Ok(store, <<>>)

\* StdResult<T> of a query: SWAP.load fails when no record was saved.
QueryOk(value) == [ok |-> TRUE, err |-> "", value |-> Some(value)]
QueryErr(e) == [ok |-> FALSE, err |-> e, value |-> None]

query_swap(store) ==
    IF store.swap = None THEN QueryErr("not found")
    ELSE LET swap == store.swap[1]
         IN  QueryOk([sender |-> swap.sender,
                      beneficiary |-> swap.beneficiary,
                      hash_lock |-> swap.hash_lock,
                      timelock |-> swap.timelock,
                      amount |-> swap.amount,
                      token |-> swap.token,
                      state |-> swap.state])

\* query_is_claimable that still answers yes at the deadline itself.
query_is_claimable_AtDeadline(store, time) ==
    IF store.swap = None THEN QueryErr("not found")
    ELSE LET swap == store.swap[1]
         IN  QueryOk(swap.state = Open /\ time <= swap.timelock)

query_is_claimable(store, time) ==
    IF store.swap = None THEN QueryErr("not found")
    ELSE LET swap == store.swap[1]
         IN  QueryOk(swap.state = Open /\ time < swap.timelock)

\* query_is_refundable that answers no at the deadline itself.
query_is_refundable_StrictlyAfter(store, time) ==
    IF store.swap = None THEN QueryErr("not found")
    ELSE LET swap == store.swap[1]
         IN  QueryOk(swap.state = Open /\ time > swap.timelock)

query_is_refundable(store, time) ==
    IF store.swap = None THEN QueryErr("not found")
    ELSE LET swap == store.swap[1]
         IN  QueryOk(swap.state = Open /\ time >= swap.timelock)

\* QueryMsg
QueryMsgs == {"GetSwap", "IsClaimable", "IsRefundable"}

query(store, time, msg) ==
    CASE msg = "GetSwap" -> query_swap(store)
      [] msg = "IsClaimable" -> query_is_claimable(store, time)
      [] msg = "IsRefundable" -> query_is_refundable(store, time)

-----------------------------------------------------------------------------
(* The host: the bank ledger of native coins, the Cw20 token ledger, and   *)
(* the transactional execution of a call and of the messages it returns.   *)

RECURSIVE Total(_, _)
Total(coins, denom) ==
    IF coins = <<>> THEN 0
    ELSE (IF Head(coins).denom = denom THEN Head(coins).amount ELSE 0)
           + Total(Tail(coins), denom)

CanPay(b, from, coins) == \A d \in Denoms : Total(coins, d) <= b[from][d]

BankTransfer(b, from, to, coins) ==
    [a \in Accounts |-> [d \in Denoms |->
        b[a][d] + (IF a = to THEN Total(coins, d) ELSE 0)
                - (IF a = from THEN Total(coins, d) ELSE 0)]]

TokenTransfer(tk, from, to, amount) ==
    [a \in Accounts |->
        tk[a] + (IF a = to THEN amount ELSE 0) - (IF a = from THEN amount ELSE 0)]

\* Executes the messages of a Response in order; any failure fails the call.
RECURSIVE Dispatch(_, _, _)
Dispatch(messages, b, tk) ==
    IF messages = <<>> THEN [ok |-> TRUE, bank |-> b, tokens |-> tk]
    ELSE LET m == Head(messages) IN
         IF m.kind = "Bank"
         THEN IF CanPay(b, Contract, m.amount)
              THEN Dispatch(Tail(messages),
                            BankTransfer(b, Contract, m.to_address, m.amount), tk)
              ELSE [ok |-> FALSE, bank |-> b, tokens |-> tk]
         ELSE IF m.contract_addr = Cw20
                   /\ m.msg.transfer.amount <= tk[Contract]
              THEN Dispatch(Tail(messages), b,
                            TokenTransfer(tk, Contract, m.msg.transfer.recipient,
                                          m.msg.transfer.amount))
              ELSE [ok |-> FALSE, bank |-> b, tokens |-> tk]

MessageInfo(sender, funds) == [sender |-> sender, funds |-> funds]

\* One call as a transaction: the attached funds (and, for a Cw20 Send, the
\* tokens, giving tk) are moved to the contract, the handler returns res, and
\* the messages of its Response are executed.  Storage, ledgers and messages
\* are kept only if all of it succeeded; otherwise nothing changes.  last is
\* the latest call that was kept.
Transaction(op, info, res, tk) ==
    \E d \in {Dispatch(res.messages,
                        BankTransfer(bank, info.sender, Contract, info.funds), tk)} :
      IF res.ok /\ d.ok
      THEN /\ storage' = res.storage
           /\ bank' = d.bank
           /\ tokens' = d.tokens
           /\ sent' = sent \o res.messages
           /\ exits' = IF op \in {"claim", "refund"} THEN Append(exits, op) ELSE exits
           /\ funded' = IF op = "fund"
                        THEN [x \in Denoms |-> funded[x] + Total(info.funds, x)]
                        ELSE funded
           /\ last' = [op |-> op, before |-> storage, res |-> res]
           /\ UNCHANGED now
      ELSE UNCHANGED vars

InstantiateMsgs ==
    [sender : {Alice, Invalid}, beneficiary : {Alice, Bob, Invalid},
     hash_lock : HashLocks, timelock : 0..MaxTime, amount : 0..MaxAmount,
     token : {None, Some(Cw20), Some(Invalid)}]

Cw20ReceiveMsg(sender, amount, msg) ==
    [sender |-> sender, amount |-> amount, msg |-> msg]
Cw20ReceiveMsgs ==
    {Cw20ReceiveMsg(Alice, a, "fund") : a \in 1..InitialBalance}
      \cup {Cw20ReceiveMsg(Invalid, 1, "fund"), Cw20ReceiveMsg(Alice, 1, "garbage")}

Instantiate ==
    /\ storage.swap = None
    /\ \E msg \in InstantiateMsgs :
         \E res \in {instantiate(storage, now, msg)} :
           Transaction("instantiate", MessageInfo(Alice, <<>>), res, tokens)

Fund ==
    /\ storage.swap # None
    /\ \E caller \in Addr, funds \in Funds :
         /\ CanPay(bank, caller, funds)
         /\ \E res \in {execute_fund(storage, MessageInfo(caller, funds))} :
              Transaction("fund", MessageInfo(caller, funds), res, tokens)

Claim ==
    /\ storage.swap # None
    /\ \E caller \in Addr, preimage \in Preimages :
         \E res \in {execute_claim(storage, now, MessageInfo(caller, <<>>),
                                     preimage)} :
           Transaction("claim", MessageInfo(caller, <<>>), res, tokens)

Refund ==
    /\ storage.swap # None
    /\ \E caller \in Addr :
         \E res \in {execute_refund(storage, now, MessageInfo(caller, <<>>))} :
           Transaction("refund", MessageInfo(caller, <<>>), res, tokens)

\* Receive called by the token contract in the course of a Cw20 Send (the
\* tokens have been moved to the contract), or called directly by a user.
Receive ==
    /\ storage.swap # None
    /\ \E caller \in Addr, wrapper \in Cw20ReceiveMsgs :
         /\ caller = Cw20 =>
              wrapper.sender \in Users /\ wrapper.amount <= tokens[wrapper.sender]
         /\ \E res \in {execute_receive(storage, MessageInfo(caller, <<>>),
                                           wrapper)} :
              Transaction("receive", MessageInfo(caller, <<>>), res,
                        IF caller = Cw20
                        THEN TokenTransfer(tokens, wrapper.sender, Contract,
                                           wrapper.amount)
                        ELSE tokens)

\* A query reads the storage and returns; it has no storage to write to.
Query ==
    /\ storage.swap # None
    /\ \E msg \in QueryMsgs : query(storage, now, msg).ok
    /\ UNCHANGED vars

\* The block time advances.
Tick ==
    /\ now < MaxTime
    /\ now' = now + 1
    /\ UNCHANGED <<storage, bank, tokens, sent, exits, funded, last>>

Init ==
    /\ storage = EmptyStorage
    /\ now = 0
    /\ bank = [a \in Accounts |-> [d \in Denoms |->
                 IF a = Alice THEN InitialBalance ELSE 0]]
    /\ tokens = [a \in Accounts |-> IF a = Alice THEN InitialBalance ELSE 0]
    /\ sent = <<>>
    /\ exits = <<>>
    /\ funded = [d \in Denoms |-> 0]
    /\ last = [op |-> "none", before |-> EmptyStorage, res |-> Ok(EmptyStorage, <<>>)]

Next == Instantiate \/ Fund \/ Claim \/ Refund \/ Receive \/ Query \/ Tick

Spec == Init /\ [][Next]_vars

\* The block time keeps advancing up to MaxTime, and a Refund that would be
\* carried out is eventually submitted.
FairSpec == Spec /\ WF_vars(Tick) /\ WF_vars(Refund)

-----------------------------------------------------------------------------
(* Properties.                                                             *)

Times == 0..MaxTime
Terminal == {Claimed, Refunded}
NoFunds(caller) == MessageInfo(caller, <<>>)

\* C1: at most one exit ever succeeds for a swap record: no history holds a
\* successful Claim and a successful Refund, nor two Claims, nor two Refunds.
C1_AtMostOneExit == Len(exits) <= 1

\* One exit has succeeded and the contract still holds enough for another.
C1_Witness ==
    /\ Len(exits) = 1
    /\ storage.swap[1].token = None
    /\ bank[Contract]["uatom"] >= storage.swap[1].amount

C3_RefundIff ==
    storage.swap # None =>
      LET swap == storage.swap[1] IN
      /\ \A caller \in Addr, time \in Times :
           LET res == execute_refund(storage, time, NoFunds(caller)) IN
           /\ res.ok <=> /\ swap.state = Open
                         /\ caller = swap.sender
                         /\ time >= swap.timelock
           /\ res.ok => res.storage.swap = Some([swap EXCEPT !.state = Refunded])
      /\ last.op = "refund" => swap.state = Refunded

\* A refund made in the very block of the deadline.
C3_Witness ==
    /\ last.op = "refund"
    /\ storage.swap[1].state = Refunded
    /\ now = storage.swap[1].timelock

\* C4: once the state is Claimed or Refunded, every Fund, Claim and Refund
\* call, by any caller, at any time, with any preimage and any funds, fails
\* with "Swap is not open" and leaves the stored record as it was.
C4_TerminalIdempotence ==
    (storage.swap # None /\ storage.swap[1].state \in Terminal) =>
      \A caller \in Addr :
        /\ \A funds \in Funds :
             LET res == execute_fund(storage, MessageInfo(caller, funds)) IN
             ~res.ok /\ res.err = "Swap is not open" /\ res.storage = storage
        /\ \A time \in Times, preimage \in Preimages :
             LET res == execute_claim(storage, time, NoFunds(caller), preimage) IN
             ~res.ok /\ res.err = "Swap is not open" /\ res.storage = storage
        /\ \A time \in Times :
             LET res == execute_refund(storage, time, NoFunds(caller)) IN
             ~res.ok /\ res.err = "Swap is not open" /\ res.storage = storage

\* The sender asks for a refund again, after the deadline, of a refunded swap.
C4_Witness ==
    /\ storage.swap # None
    /\ storage.swap[1].state = Refunded
    /\ execute_refund(storage, now, NoFunds(storage.swap[1].sender)).err
         = "Swap is not open"

\* C5: the only state changes are Open -> Claimed and Open -> Refunded; no
\* step leaves Claimed or Refunded, or changes the record once it is terminal,
\* and no step changes any other field of the record.
C5_MonotoneState ==
    [][storage.swap # None =>
         /\ storage'.swap # None
         /\ \/ storage'.swap = storage.swap
            \/ /\ storage.swap[1].state = Open
               /\ storage'.swap[1].state \in Terminal
               /\ storage'.swap[1]
                    = [storage.swap[1] EXCEPT !.state = storage'.swap[1].state]]_vars

\* A claimed swap whose deadline has since passed.
C5_Witness ==
    /\ exits = <<"claim">>
    /\ last.before.swap[1].state = Open
    /\ storage.swap[1].state = Claimed
    /\ now >= storage.swap[1].timelock

\* C6: the number of transfer messages emitted over a record's lifetime is 0
\* while the swap is Open and 1 once it is Claimed or Refunded: the successful
\* Claim or Refund emits one, and instantiate, Fund, Receive and failed calls
\* emit none.
C6_OneDirective ==
    /\ storage.swap = None =>
         /\ sent = <<>>
         /\ \A msg \in InstantiateMsgs : instantiate(storage, now, msg).messages = <<>>
    /\ storage.swap # None =>
         /\ Len(sent) = IF storage.swap[1].state = Open THEN 0 ELSE 1
         /\ \A caller \in Addr :
              /\ \A funds \in Funds :
                   execute_fund(storage, MessageInfo(caller, funds)).messages = <<>>
              /\ \A wrapper \in Cw20ReceiveMsgs :
                   execute_receive(storage, NoFunds(caller), wrapper).messages = <<>>
              /\ \A preimage \in Preimages :
                   LET res == execute_claim(storage, now, NoFunds(caller), preimage)
                   IN  Len(res.messages) = IF res.ok THEN 1 ELSE 0
              /\ LET res == execute_refund(storage, now, NoFunds(caller))
                 IN  Len(res.messages) = IF res.ok THEN 1 ELSE 0

\* A token swap that has left Open, with its one transfer.
C6_Witness ==
    /\ Len(sent) = 1
    /\ Len(last.res.messages) = 1
    /\ storage.swap[1].token # None

\* C7: a failed instantiate, Fund, Claim, Refund or Receive leaves the stored
\* swap record as it was (absent, for instantiate) and emits no message.
C7_FailedCallChangesNothing ==
    /\ storage.swap = None =>
         \A msg \in InstantiateMsgs :
           LET res == instantiate(storage, now, msg) IN
           ~res.ok => res.storage.swap = None /\ res.messages = <<>>
    /\ storage.swap # None =>
         \A caller \in Addr :
           /\ \A funds \in Funds :
                LET res == execute_fund(storage, MessageInfo(caller, funds)) IN
                ~res.ok => res.storage.swap = storage.swap /\ res.messages = <<>>
           /\ \A time \in Times, preimage \in Preimages :
                LET res == execute_claim(storage, time, NoFunds(caller), preimage) IN
                ~res.ok => res.storage.swap = storage.swap /\ res.messages = <<>>
           /\ \A time \in Times :
                LET res == execute_refund(storage, time, NoFunds(caller)) IN
                ~res.ok => res.storage.swap = storage.swap /\ res.messages = <<>>
           /\ \A wrapper \in Cw20ReceiveMsgs :
                LET res == execute_receive(storage, NoFunds(caller), wrapper) IN
                ~res.ok => res.storage.swap = storage.swap /\ res.messages = <<>>

\* An open swap, before its deadline, whose beneficiary offers a wrong preimage.
C7_Witness ==
    /\ storage.swap # None
    /\ storage.swap[1].state = Open
    /\ \E preimage \in Preimages :
         execute_claim(storage, now, NoFunds(storage.swap[1].beneficiary),
                       preimage).err = "Invalid preimage"

\* C8: the message of a successful Claim goes to the beneficiary and that of a
\* successful Refund to the sender, each for the record's amount: a bank send
\* when the swap is native, a Transfer executed on the token contract when it
\* names a token.
C8_DirectiveShape ==
    storage.swap # None =>
      LET swap == storage.swap[1]
          Shaped(messages, dest) ==
              /\ Len(messages) = 1
              /\ IF swap.token = None
                 THEN /\ messages[1].kind = "Bank"
                      /\ messages[1].to_address = dest
                      /\ Len(messages[1].amount) = 1
                      /\ messages[1].amount[1].amount = swap.amount
                 ELSE /\ messages[1].kind = "Wasm"
                      /\ messages[1].contract_addr = swap.token[1]
                      /\ messages[1].msg = Cw20Transfer(dest, swap.amount)
      IN  /\ \A caller \in Addr, time \in Times :
               /\ \A preimage \in Preimages :
                    LET res == execute_claim(storage, time, NoFunds(caller), preimage)
                    IN  res.ok => Shaped(res.messages, swap.beneficiary)
               /\ LET res == execute_refund(storage, time, NoFunds(caller))
                  IN  res.ok => Shaped(res.messages, swap.sender)
          /\ swap.state = Claimed => Shaped(sent, swap.beneficiary)
          /\ swap.state = Refunded => Shaped(sent, swap.sender)

\* A token swap refunded to its sender.
C8_Witness ==
    /\ storage.swap # None
    /\ storage.swap[1].state = Refunded
    /\ sent[1].kind = "Wasm"
    /\ sent[1].msg.transfer.recipient = storage.swap[1].sender

\* C9: in every state where the record is Claimed or Refunded the contract
\* holds none of the value that successful Fund calls deposited into it, for
\* any number of Fund calls and any accepted denomination.
C9_NoStuckValue ==
    (storage.swap # None /\ storage.swap[1].state \in Terminal) =>
      \A d \in Denoms : bank[Contract][d] = 0

\* A native swap funded twice and then finished: one deposit stays behind.
C9_StuckValue ==
    /\ storage.swap # None
    /\ storage.swap[1].state \in Terminal
    /\ funded["uatom"] = 2 * storage.swap[1].amount
    /\ bank[Contract]["uatom"] = storage.swap[1].amount

ValidParams(msg, time) ==
    /\ msg.sender # Invalid
    /\ msg.beneficiary # Invalid
    /\ msg.token # Some(Invalid)
    /\ msg.hash_lock # <<>>
    /\ msg.timelock > time
    /\ msg.amount > 0

\* C11: for all creation parameters with a non-empty hash lock, a deadline
\* after now, a positive amount and well-formed identities, instantiate
\* succeeds, the state is Open, and the stored sender, beneficiary, hash_lock,
\* timelock, amount and token are exactly the inputs.
C11_CreateReflectsInputs ==
    /\ storage.swap = None =>
         \A msg \in InstantiateMsgs :
           ValidParams(msg, now) =>
             LET res == instantiate(storage, now, msg) IN
             /\ res.ok
             /\ res.storage.swap # None
             /\ res.storage.swap[1].state = Open
             /\ res.storage.swap[1].sender = msg.sender
             /\ res.storage.swap[1].beneficiary = msg.beneficiary
             /\ res.storage.swap[1].hash_lock = msg.hash_lock
             /\ res.storage.swap[1].timelock = msg.timelock
             /\ res.storage.swap[1].amount = msg.amount
             /\ res.storage.swap[1].token = msg.token
    /\ last.op = "instantiate" => storage = last.res.storage

\* A token swap between two different parties has just been created.
C11_Witness ==
    /\ last.op = "instantiate"
    /\ storage.swap # None
    /\ storage.swap[1].state = Open
    /\ storage.swap[1].sender # storage.swap[1].beneficiary
    /\ storage.swap[1].token = Some(Cw20)

\* C12: instantiate fails whenever the hash lock is empty, or the deadline is
\* at or before the block time, or the amount is zero, or an identity is
\* malformed, and then no swap record exists; so every record has a non-empty
\* hash lock, a positive amount and a deadline after its creation time.
C12_CreateRejectsInvalid ==
    /\ storage.swap = None =>
         \A msg \in InstantiateMsgs :
           LET res == instantiate(storage, now, msg) IN
           /\ ~ValidParams(msg, now) => ~res.ok /\ res.storage.swap = None
           /\ res.ok => /\ res.storage.swap[1].hash_lock # <<>>
                        /\ res.storage.swap[1].amount > 0
                        /\ res.storage.swap[1].timelock > now
    /\ storage.swap # None =>
         /\ storage.swap[1].hash_lock # <<>>
         /\ storage.swap[1].amount > 0
         /\ storage.swap[1].timelock > 0

\* No record yet, time has advanced, and a deadline equal to now is refused.
C12_Witness ==
    /\ storage.swap = None
    /\ now > 0
    /\ \E msg \in InstantiateMsgs :
         /\ msg.timelock = now
         /\ instantiate(storage, now, msg).err = "Timelock must be in the future"

\* C13: every swap record that instantiate persists has a hash_lock of
\* exactly 32 bytes; no reachable record has a hash_lock of another length.
C13_HashLockIs32Bytes ==
    storage.swap # None => Len(storage.swap[1].hash_lock) = 32

\* A record whose hash lock is the six bytes of "secret".
C13_ShortHashLock ==
    /\ storage.swap # None
    /\ storage.swap[1].hash_lock = Secret
    /\ Len(storage.swap[1].hash_lock) = 6

\* The fields of a record other than its state.
Fixed(swap) ==
    <<swap.sender, swap.beneficiary, swap.hash_lock, swap.timelock, swap.amount,
      swap.token>>

\* C14: after creation the sender, beneficiary, hash_lock, timelock, amount
\* and token of the record never change: every Fund, Receive, Claim and Refund
\* call, successful or failed, leaves them as they were at creation.
C14_FieldsFrozen ==
    storage.swap # None =>
      LET Kept(res) ==
              res.storage.swap # None /\ Fixed(res.storage.swap[1]) = Fixed(storage.swap[1])
      IN  /\ \A caller \in Addr :
               /\ \A funds \in Funds :
                    Kept(execute_fund(storage, MessageInfo(caller, funds)))
               /\ \A wrapper \in Cw20ReceiveMsgs :
                    Kept(execute_receive(storage, NoFunds(caller), wrapper))
               /\ \A time \in Times, preimage \in Preimages :
                    Kept(execute_claim(storage, time, NoFunds(caller), preimage))
               /\ \A time \in Times :
                    Kept(execute_refund(storage, time, NoFunds(caller)))
          /\ last.op # "instantiate" => Fixed(storage.swap[1]) = Fixed(last.before.swap[1])

\* A funded native swap was claimed by a beneficiary who is not its sender,
\* and the record differs from the one before the claim in its state only.
C14_Witness ==
    /\ last.op = "claim"
    /\ funded["uatom"] > 0
    /\ storage.swap[1].sender # storage.swap[1].beneficiary
    /\ storage.swap[1] # last.before.swap[1]
    /\ Fixed(storage.swap[1]) = Fixed(last.before.swap[1])

\* C15: for a native swap, Fund succeeds iff the state is Open, the caller is
\* the sender and the attached funds contain a coin of an accepted
\* denomination whose amount is the record's amount; it fails with the state
\* error if not Open, the authorization error if the caller is not the sender,
\* and a payment error if the payment is absent or differs.
C15_FundIff ==
    (storage.swap # None /\ storage.swap[1].token = None) =>
      LET swap == storage.swap[1] IN
      \A caller \in Addr, funds \in Funds :
        LET res == execute_fund(storage, MessageInfo(caller, funds))
            paid == \E i \in 1..Len(funds) :
                      /\ funds[i].denom \in {"uatom", "stake"}
                      /\ funds[i].amount = swap.amount
        IN  /\ res.ok <=> (swap.state = Open /\ caller = swap.sender /\ paid)
            /\ swap.state # Open => res.err = "Swap is not open"
            /\ (swap.state = Open /\ caller # swap.sender) =>
                 res.err = "Only sender can fund the swap"
            /\ (swap.state = Open /\ caller = swap.sender /\ ~paid) =>
                 res.err \in {"No payment found", "Incorrect payment amount"}

\* An open native swap whose sender attaches the right amount of "uatom"
\* behind another amount of "stake", and is refused.
C15_RefusedPayment ==
    /\ storage.swap # None
    /\ storage.swap[1].token = None
    /\ storage.swap[1].state = Open
    /\ \E a \in 1..InitialBalance :
         /\ a # storage.swap[1].amount
         /\ execute_fund(storage,
                         MessageInfo(storage.swap[1].sender,
                                     <<Coin("stake", a),
                                       Coin("uatom", storage.swap[1].amount)>>)).err
              = "Incorrect payment amount"

\* C16: a successful Fund changes no field of the record and emits no message,
\* so Fund succeeds again, any number of times, while the swap is Open.
C16_FundRecordsNothing ==
    storage.swap # None =>
      LET swap == storage.swap[1] IN
      /\ \A caller \in Addr, funds \in Funds :
           LET res == execute_fund(storage, MessageInfo(caller, funds)) IN
           res.ok => res.storage = storage /\ res.messages = <<>>
      /\ last.op = "fund" => storage = last.before /\ last.res.messages = <<>>
      /\ swap.state = Open =>
           execute_fund(storage,
                        MessageInfo(swap.sender, <<Coin("uatom", swap.amount)>>)).ok

\* An open swap whose second Fund has just succeeded.
C16_Witness ==
    /\ last.op = "fund"
    /\ storage.swap[1].state = Open
    /\ storage = last.before
    /\ funded["uatom"] = 2 * storage.swap[1].amount

\* C17 as stated: Receive succeeds iff the notifying contract is the record's
\* token and the notified amount is the record's amount.
C17_ReceiveIffTokenAndAmount ==
    storage.swap # None =>
      \A caller \in Addr, wrapper \in Cw20ReceiveMsgs :
        execute_receive(storage, NoFunds(caller), wrapper).ok
          <=> /\ storage.swap[1].token = Some(caller)
              /\ wrapper.amount = storage.swap[1].amount

\* C17, amended: a notification whose payload parses as the Fund hook message
\* and whose sender is a well-formed address succeeds iff the notifying
\* contract is the record's token and the notified amount is the record's
\* amount, and fails with "Wrong token contract" or "Incorrect token amount"
\* otherwise (always for a native swap); one whose payload does not parse or
\* whose sender is malformed fails before these checks.  In every case the
\* record, its state included, is unchanged and no message is emitted.
C17_ReceiveIff ==
    storage.swap # None =>
      LET swap == storage.swap[1] IN
      /\ \A caller \in Addr, wrapper \in Cw20ReceiveMsgs :
           LET res == execute_receive(storage, NoFunds(caller), wrapper)
               wellformed == wrapper.msg = "fund" /\ wrapper.sender \in Addr
           IN  /\ res.ok <=> /\ wellformed
                             /\ swap.token = Some(caller)
                             /\ wrapper.amount = swap.amount
               /\ wrapper.msg # "fund" => res.err = "Error parsing into type Cw20HookMsg"
               /\ (wrapper.msg = "fund" /\ wrapper.sender \notin Addr) =>
                    res.err = "Invalid address"
               /\ (wellformed /\ swap.token # Some(caller)) =>
                    res.err = "Wrong token contract"
               /\ (wellformed /\ swap.token = Some(caller)
                     /\ wrapper.amount # swap.amount) =>
                    res.err = "Incorrect token amount"
               /\ res.storage = storage
               /\ res.messages = <<>>
      /\ last.op = "receive" => storage = last.before /\ last.res.messages = <<>>

\* The token contract has notified the swap of a transfer of its amount.
C17_Witness ==
    /\ last.op = "receive"
    /\ storage = last.before
    /\ tokens[Contract] >= storage.swap[1].amount
    /\ storage.swap[1].token = Some(Cw20)

\* C18: with a record stored, at every block time, IsClaimable is exactly
\* (state = Open and now < timelock), IsRefundable is exactly (state = Open
\* and now >= timelock), GetSwap returns the record, and none of them fails.
C18_Queries ==
    storage.swap # None =>
      LET swap == storage.swap[1] IN
      /\ \A time \in Times :
           /\ query(storage, time, "IsClaimable")
                = QueryOk(swap.state = Open /\ time < swap.timelock)
           /\ query(storage, time, "IsRefundable")
                = QueryOk(swap.state = Open /\ time >= swap.timelock)
           /\ query(storage, time, "GetSwap") = QueryOk(swap)

\* An open swap in the block of its deadline: refundable, no longer claimable.
C18_Witness ==
    /\ storage.swap # None
    /\ storage.swap[1].state = Open
    /\ now = storage.swap[1].timelock
    /\ query_is_refundable(storage, now) = QueryOk(TRUE)
    /\ query_is_claimable(storage, now) = QueryOk(FALSE)

\* The contract holds at least the record's amount of what a payout sends.
Held ==
    /\ storage.swap # None
    /\ IF storage.swap[1].token = None
       THEN bank[Contract]["uatom"] >= storage.swap[1].amount
       ELSE tokens[Contract] >= storage.swap[1].amount

\* C19: when the host cannot execute the transfer built by a Claim or Refund,
\* the whole call fails: the record stays Open.  So every step that takes the
\* record from Open to Claimed or Refunded starts where the contract holds the
\* amount, and it carries out exactly that one transfer.
C19_HostFailureReverts ==
    [][(storage.swap # None /\ storage.swap[1].state = Open
          /\ storage'.swap[1].state \in Terminal) =>
         /\ Held
         /\ Len(sent') = Len(sent) + 1
         /\ IF storage.swap[1].token = None
            THEN bank'[Contract]["uatom"]
                   = bank[Contract]["uatom"] - storage.swap[1].amount
            ELSE tokens'[Contract] = tokens[Contract] - storage.swap[1].amount]_vars

\* An open, unfunded swap whose beneficiary's claim passes every check of the
\* handler before the deadline, and which the host cannot pay.
C19_Witness ==
    /\ storage.swap # None
    /\ storage.swap[1].state = Open
    /\ ~Held
    /\ \E preimage \in Preimages :
         LET res == execute_claim(storage, now, NoFunds(storage.swap[1].beneficiary),
                                  preimage)
         IN  res.ok /\ ~Dispatch(res.messages, bank, tokens).ok

\* C20: at and after the deadline of an Open swap the beneficiary's Claim
\* fails with "Timelock has expired" and the sender's Refund is accepted; and
\* if the block time keeps advancing and the sender's Refund is submitted, a
\* swap for which the contract holds the amount does not stay Open for ever.
C20_TimeoutLiveness ==
    /\ []((storage.swap # None /\ storage.swap[1].state = Open
             /\ now >= storage.swap[1].timelock) =>
            /\ \A preimage \in Preimages :
                 execute_claim(storage, now, NoFunds(storage.swap[1].beneficiary),
                               preimage).err = "Timelock has expired"
            /\ execute_refund(storage, now, NoFunds(storage.swap[1].sender)).ok)
    /\ Held ~> (storage.swap # None /\ storage.swap[1].state \in Terminal)

\* A funded native swap was refunded after its deadline and the sender has
\* all of the "uatom" back.
C20_Witness ==
    /\ exits = <<"refund">>
    /\ storage.swap[1].token = None
    /\ funded["uatom"] = storage.swap[1].amount
    /\ bank[storage.swap[1].sender]["uatom"] = InitialBalance
    /\ now > storage.swap[1].timelock

\* The bank ledger before any call.
InitialBank ==
    [a \in Accounts |-> [d \in Denoms |-> IF a = Alice THEN InitialBalance ELSE 0]]

\* C21: for a native swap funded by exactly one successful Fund of its amount
\* in "uatom", with the host executing the transfers: after the Claim the
\* beneficiary holds its balance from before the claim plus the amount, after
\* the Refund the sender holds what it held before funding, and either way the
\* contract holds what it held before the Fund.
C21_BalanceConservation ==
    (/\ storage.swap # None
     /\ storage.swap[1].token = None
     /\ funded = [d \in Denoms |-> IF d = "uatom" THEN storage.swap[1].amount ELSE 0]
     /\ storage.swap[1].state \in Terminal) =>
      LET swap == storage.swap[1]
          afterFund == BankTransfer(InitialBank, swap.sender, Contract,
                                    <<Coin("uatom", swap.amount)>>)
      IN  /\ bank[Contract] = InitialBank[Contract]
          /\ swap.state = Claimed =>
               bank[swap.beneficiary]["uatom"]
                 = afterFund[swap.beneficiary]["uatom"] + swap.amount
          /\ swap.state = Refunded => bank[swap.sender] = InitialBank[swap.sender]

\* A swap funded once was claimed by a beneficiary who is not its sender.
C21_Witness ==
    /\ storage.swap # None
    /\ storage.swap[1].token = None
    /\ storage.swap[1].state = Claimed
    /\ storage.swap[1].beneficiary # storage.swap[1].sender
    /\ funded["uatom"] = storage.swap[1].amount
    /\ funded["stake"] = 0
    /\ bank[storage.swap[1].beneficiary]["uatom"] = storage.swap[1].amount

\* Nothing was ever deposited with the contract.
NeverFunded ==
    /\ \A d \in Denoms : bank[Contract][d] = 0
    /\ tokens[Contract] = 0

\* C22: the guards of Claim and Refund do not ask whether the swap was funded:
\* on a never-funded Open swap a Claim by the beneficiary with the matching
\* preimage before the deadline, and a Refund by the sender from the deadline
\* on, pass every guard, set the terminal state and return the transfer; only
\* the ledger's refusal of that transfer stops the call.
C22_GuardsIgnoreFunding ==
    (storage.swap # None /\ storage.swap[1].state = Open /\ NeverFunded) =>
      LET swap == storage.swap[1] IN
      \A time \in Times :
        /\ time < swap.timelock =>
             \A preimage \in Preimages :
               Digest[preimage] = swap.hash_lock =>
                 LET res == execute_claim(storage, time, NoFunds(swap.beneficiary),
                                          preimage)
                 IN  /\ res.ok
                     /\ res.storage.swap[1].state = Claimed
                     /\ Len(res.messages) = 1
                     /\ ~Dispatch(res.messages, bank, tokens).ok
        /\ time >= swap.timelock =>
             LET res == execute_refund(storage, time, NoFunds(swap.sender))
             IN  /\ res.ok
                 /\ res.storage.swap[1].state = Refunded
                 /\ Len(res.messages) = 1
                 /\ ~Dispatch(res.messages, bank, tokens).ok

\* A never-funded swap at its deadline: the handler accepts the sender's
\* Refund and the ledger refuses the transfer.
C22_Witness ==
    /\ storage.swap # None
    /\ storage.swap[1].state = Open
    /\ NeverFunded
    /\ now >= storage.swap[1].timelock
    /\ LET res == execute_refund(storage, now, NoFunds(storage.swap[1].sender))
       IN  res.ok /\ ~Dispatch(res.messages, bank, tokens).ok

\* C23: a Claim whose preimage is the empty byte string fails for every swap,
\* also for an Open swap whose hash lock is the digest of the empty string,
\* called by the beneficiary before the deadline.
C23_EmptyPreimageFails ==
    storage.swap # None =>
      \A caller \in Addr, time \in Times :
        ~execute_claim(storage, time, NoFunds(caller), <<>>).ok

\* A swap locked with the digest of the empty string has been claimed.
C23_EmptyPreimageClaimed ==
    /\ last.op = "claim"
    /\ storage.swap[1].state = Claimed
    /\ storage.swap[1].hash_lock = Digest[<<>>]

\* C24: the guards are evaluated in a fixed order, so the error reported is
\* that of the first guard that fails: for Claim state, caller, deadline,
\* preimage; for Refund state, caller, deadline; for Fund state, caller,
\* payment.  A wrong caller with a wrong preimage on an Open swap gets "Only
\* beneficiary can claim".
C24_GuardOrder ==
    storage.swap # None =>
      LET swap == storage.swap[1] IN
      \A caller \in Addr :
        /\ \A time \in Times, preimage \in Preimages :
             LET err == execute_claim(storage, time, NoFunds(caller), preimage).err IN
             /\ swap.state # Open => err = "Swap is not open"
             /\ (swap.state = Open /\ caller # swap.beneficiary) =>
                  err = "Only beneficiary can claim"
             /\ (swap.state = Open /\ caller = swap.beneficiary
                   /\ time >= swap.timelock) => err = "Timelock has expired"
             /\ (swap.state = Open /\ caller = swap.beneficiary
                   /\ time < swap.timelock /\ Digest[preimage] # swap.hash_lock) =>
                  err = "Invalid preimage"
        /\ \A time \in Times :
             LET err == execute_refund(storage, time, NoFunds(caller)).err IN
             /\ swap.state # Open => err = "Swap is not open"
             /\ (swap.state = Open /\ caller # swap.sender) =>
                  err = "Only sender can refund"
             /\ (swap.state = Open /\ caller = swap.sender /\ time < swap.timelock) =>
                  err = "Timelock has not expired"
        /\ \A funds \in Funds :
             LET res == execute_fund(storage, MessageInfo(caller, funds)) IN
             /\ swap.state # Open => res.err = "Swap is not open"
             /\ (swap.state = Open /\ caller # swap.sender) =>
                  res.err = "Only sender can fund the swap"
             /\ (swap.state = Open /\ caller = swap.sender /\ ~res.ok) =>
                  res.err \in {"No payment found", "Incorrect payment amount"}

\* An open swap past its deadline on which a caller who is not the beneficiary
\* offers a wrong preimage: three guards fail, the caller's is reported.
C24_Witness ==
    /\ storage.swap # None
    /\ storage.swap[1].state = Open
    /\ now >= storage.swap[1].timelock
    /\ \E caller \in Addr \ {storage.swap[1].beneficiary}, preimage \in Preimages :
         /\ Digest[preimage] # storage.swap[1].hash_lock
         /\ execute_claim(storage, now, NoFunds(caller), preimage).err
              = "Only beneficiary can claim"

\* C25: at any block time and in any reachable state IsClaimable is true
\* exactly when a Claim by the beneficiary with a matching preimage would pass
\* the guards, and IsRefundable exactly when a Refund by the sender would; so
\* while Open exactly one of the two is true and in a terminal state neither.
C25_ViewsAgreeWithGuards ==
    storage.swap # None =>
      LET swap == storage.swap[1] IN
      \A time \in Times :
        LET claimable == query(storage, time, "IsClaimable")
            refundable == query(storage, time, "IsRefundable")
        IN  /\ claimable.ok /\ refundable.ok
            /\ \A preimage \in Preimages :
                 Digest[preimage] = swap.hash_lock =>
                   (claimable.value[1]
                      <=> execute_claim(storage, time, NoFunds(swap.beneficiary),
                                        preimage).ok)
            /\ refundable.value[1]
                 <=> execute_refund(storage, time, NoFunds(swap.sender)).ok
            /\ swap.state = Open => (claimable.value[1] <=> ~refundable.value[1])
            /\ swap.state \in Terminal =>
                 ~claimable.value[1] /\ ~refundable.value[1]

\* An open swap locked with the digest of Secret, before its deadline:
\* claimable, and the beneficiary's claim with Secret is accepted.
C25_Witness ==
    /\ storage.swap # None
    /\ storage.swap[1].state = Open
    /\ storage.swap[1].hash_lock = Digest[Secret]
    /\ query_is_claimable(storage, now) = QueryOk(TRUE)
    /\ execute_claim(storage, now, NoFunds(storage.swap[1].beneficiary), Secret).ok

\* C26: for a native swap the denomination of the transfer built by Claim or
\* Refund is the denomination of the payment that Fund accepted.
C26_PayoutDenomIsDepositDenom ==
    (storage.swap # None /\ storage.swap[1].token = None
       /\ storage.swap[1].state = Open) =>
      LET swap == storage.swap[1] IN
      \A funds \in Funds :
        execute_fund(storage, MessageInfo(swap.sender, funds)).ok =>
          /\ \A preimage \in Preimages :
               LET res == execute_claim(storage, 0, NoFunds(swap.beneficiary), preimage)
               IN  res.ok => res.messages[1].amount[1].denom = find_payment(funds)[1].denom
          /\ LET res == execute_refund(storage, swap.timelock, NoFunds(swap.sender))
             IN  res.ok => res.messages[1].amount[1].denom = find_payment(funds)[1].denom

\* A finished native swap whose Fund was accepted for its "stake" coin: the
\* payout was made in "uatom" and the "stake" is still with the contract.
C26_StakeInUatomOut ==
    /\ storage.swap # None
    /\ storage.swap[1].token = None
    /\ storage.swap[1].state \in Terminal
    /\ funded["stake"] = storage.swap[1].amount
    /\ bank[Contract]["stake"] = funded["stake"]
    /\ sent[1].amount[1].denom = "uatom"

\* C27: for a swap that names a token, Fund checks no payment: it succeeds
\* exactly when the state is Open and the caller is the sender, whatever
\* funds are attached, and it changes nothing in the record.
C27_TokenFundNoPaymentCheck ==
    (storage.swap # None /\ storage.swap[1].token # None) =>
      LET swap == storage.swap[1] IN
      \A caller \in Addr, funds \in Funds :
        LET res == execute_fund(storage, MessageInfo(caller, funds)) IN
        /\ res.ok <=> (swap.state = Open /\ caller = swap.sender)
        /\ res.storage = storage

\* The Fund of a token swap has succeeded with native coins attached.
C27_Witness ==
    /\ last.op = "fund"
    /\ storage.swap[1].token # None
    /\ storage.swap[1].state = Open
    /\ funded["stake"] + funded["uatom"] > 0

\* C28: claimability is lost for good and refundability persists: once
\* IsClaimable is false it is false in every later state, no Claim succeeds
\* from a state at or after the deadline, and once IsRefundable is true it
\* stays true until a Refund succeeds.
C28_ViewsMonotone ==
    [][storage.swap # None =>
         /\ storage'.swap # None
         /\ query_is_claimable(storage, now) = QueryOk(FALSE) =>
              query_is_claimable(storage', now') = QueryOk(FALSE)
         /\ now >= storage.swap[1].timelock =>
              (storage'.swap[1].state = Claimed => storage.swap[1].state = Claimed)
         /\ query_is_refundable(storage, now) = QueryOk(TRUE) =>
              \/ query_is_refundable(storage', now') = QueryOk(TRUE)
              \/ storage'.swap[1].state = Refunded /\ exits' = Append(exits, "refund")]_vars

\* A swap the contract can pay, still Open after its deadline has passed.
C28_Witness ==
    /\ Held
    /\ storage.swap[1].state = Open
    /\ now > storage.swap[1].timelock
    /\ query_is_refundable(storage, now) = QueryOk(TRUE)
    /\ query_is_claimable(storage, now) = QueryOk(FALSE)

====
